---- MODULE Spec2Model ----
(***************************************************************************)
(* A model of serde_canonical_json's CanonicalFormatter (src/src/lib.rs).  *)
(*                                                                         *)
(* Text is modelled at two levels, as in Rust: a &str or a String is a     *)
(* sequence of chars (Unicode code points), and what reaches the writer    *)
(* are the UTF-8 bytes of the text (str::as_bytes).  String comparison     *)
(* (Ord for String) is the lexicographic comparison of those bytes.        *)
(*                                                                         *)
(* Every method of the Formatter implementation is an operator taking the  *)
(* formatter (self: the object_stack), the writer and the method's         *)
(* arguments, and returning the formatter and the writer after the call    *)
(* together with the io::Result it returns.  The actions commit such a     *)
(* call to the state.                                                      *)
(***************************************************************************)
EXTENDS Integers, Sequences, FiniteSets, TLC

VARIABLES
    object_stack,   \* CanonicalFormatter.object_stack, front of the deque first
    writer,         \* the bytes written to the caller's writer so far
    result,         \* what the last call returned: Ok or an error
    failed,         \* history: some call of this session returned an error
    last,           \* history: the call made last
    doc,            \* event source "script": the value it serialises, the
                    \* members of its objects in the order it delivers them
    script,         \* event source "script": the calls it has yet to make
    budget          \* event source "any": the calls it may still make

vars == <<object_stack, writer, result, failed, last, doc, script, budget>>

(***************************************************************************)
(* Bounds of the model.                                                    *)
(***************************************************************************)
\* event source "any": the calls of one session
MaxCalls == 4
\* event source "objects": the chars of one session, those the frames will
\* assemble to and those of the writer
MaxWeight == 10
\* event source "script": the members of an object and the elements of an
\* array of the value it serialises
MaxDocMembers == 2
MaxDocElements == 2
\* the chars of a number text passed to write_number_str
MaxNumberLen == 3

(***************************************************************************)
(* io::Result<()>.  Every error of the crate is ErrorKind::InvalidData;    *)
(* the errors differ by their message.                                     *)
(***************************************************************************)
Ok == "Ok"
FloatForbidden == "Floating point numbers are forbidden."
NumberInvalid == "Number string in invalid format."
ObjectNotActive == "Object requested when object is not active."
KeyNotActive == "Object key requested when object is not active."
MemberNotActive == "Object member requested when member is not active."

\* The error kinds of the specification, as sets of the crate's errors.
UnsupportedFloat == {FloatForbidden}
InvalidNumberLiteral == {NumberInvalid}
ProtocolViolation == {ObjectNotActive, KeyNotActive, MemberNotActive}

(***************************************************************************)
(* Text.                                                                   *)
(***************************************************************************)
\* The UTF-8 encoding of one char (code points below 0x10000).
Utf8Char(c) ==
    IF c < 128 THEN <<c>>
    ELSE IF c < 2048 THEN <<192 + (c \div 64), 128 + (c % 64)>>
    ELSE <<224 + (c \div 4096), 128 + ((c \div 64) % 64), 128 + (c % 64)>>

\* str::as_bytes: the UTF-8 bytes of a text.
RECURSIVE as_bytes(_)
as_bytes(str) ==
    IF str = <<>> THEN <<>> ELSE Utf8Char(Head(str)) \o as_bytes(Tail(str))

\* Ord::cmp of two byte slices: lexicographic.
RECURSIVE cmp_bytes(_, _)
cmp_bytes(a, b) ==
    IF a = <<>> THEN (IF b = <<>> THEN "Equal" ELSE "Less")
    ELSE IF b = <<>> THEN "Greater"
    ELSE IF Head(a) < Head(b) THEN "Less"
    ELSE IF Head(a) > Head(b) THEN "Greater"
    ELSE cmp_bytes(Tail(a), Tail(b))

\* Ord::cmp of two Strings: that of their UTF-8 bytes.
cmp(a, b) == cmp_bytes(as_bytes(a), as_bytes(b))

(***************************************************************************)
(* ObjectMemberBuffer.                                                     *)
(***************************************************************************)
ObjectMemberBuffer_new == [key |-> <<>>, value |-> <<>>, key_finished |-> FALSE]

\* Mutant: the text goes to the value whatever the flag.
push_str_to_value(member, str) == [member EXCEPT !.value = @ \o str]

\* ObjectMemberBuffer::push_str
push_str(member, str) ==
    IF member.key_finished
    THEN [member EXCEPT !.value = @ \o str]
    ELSE [member EXCEPT !.key = @ \o str]

\* ObjectMemberBuffer::push
push(member, ch) ==
    IF member.key_finished
    THEN [member EXCEPT !.value = Append(@, ch)]
    ELSE [member EXCEPT !.key = Append(@, ch)]

\* Mutant: the flag is flipped.
finish_key_flipped(member) == [member EXCEPT !.key_finished = ~@]

\* ObjectMemberBuffer::finish_key
finish_key(member) == [member EXCEPT !.key_finished = TRUE]

\* Mutant: the comma is written before the first member too.
member_string_comma_always(member, first) ==
    <<44>> \o member.key \o <<58>> \o member.value

\* ObjectMemberBuffer::string: format!("{}{}:{}", prefix, key, value)
member_string(member, first) ==
    (IF first THEN <<>> ELSE <<44>>) \o member.key \o <<58>> \o member.value

(***************************************************************************)
(* ObjectStackFrame: its members, in the order they were pushed.           *)
(***************************************************************************)
ObjectStackFrame_new == <<>>

\* Mutant: the new member is put in front of the others.
push_member_in_front(members) == <<ObjectMemberBuffer_new>> \o members

\* ObjectStackFrame::push_member
push_member(members) == Append(members, ObjectMemberBuffer_new)

\* slice::sort_by with |a, b| a.key.cmp(&b.key): a stable sort.  Insert puts
\* a member behind every member whose key is not greater than its own.
\* Mutant: the members are compared by their values.
RECURSIVE Insert_by_value(_, _)
Insert_by_value(sorted, m) ==
    IF sorted = <<>> THEN <<m>>
    ELSE IF cmp(m.value, Head(sorted).value) = "Less" THEN <<m>> \o sorted
    ELSE <<Head(sorted)>> \o Insert_by_value(Tail(sorted), m)

\* Mutant: a member is put in front of the members whose key equals its own.
RECURSIVE Insert_before_equal(_, _)
Insert_before_equal(sorted, m) ==
    IF sorted = <<>> THEN <<m>>
    ELSE IF cmp(m.key, Head(sorted).key) # "Greater" THEN <<m>> \o sorted
    ELSE <<Head(sorted)>> \o Insert_before_equal(Tail(sorted), m)

RECURSIVE Insert(_, _)
Insert(sorted, m) ==
    IF sorted = <<>> THEN <<m>>
    ELSE IF cmp(m.key, Head(sorted).key) = "Less" THEN <<m>> \o sorted
    ELSE <<Head(sorted)>> \o Insert(Tail(sorted), m)

\* Mutant: the members stay in the order they were pushed.
sort_by_unsorted(members) == members

RECURSIVE sort_by(_)
sort_by(members) ==
    IF members = <<>> THEN <<>>
    ELSE Insert(sort_by(SubSeq(members, 1, Len(members) - 1)), members[Len(members)])

\* Mutant: the loop ends behind the first member.
MembersText_first_only(members, index) ==
    IF index > Len(members) \/ index > 1 THEN <<>>
    ELSE member_string(members[index], index = 1)

\* The loop of ObjectStackFrame::string over the sorted members.
RECURSIVE MembersText(_, _)
MembersText(members, index) ==
    IF index > Len(members) THEN <<>>
    ELSE member_string(members[index], index = 1) \o MembersText(members, index + 1)

\* ObjectStackFrame::string
frame_string(members) == <<123>> \o MembersText(sort_by(members), 1) \o <<125>>

(***************************************************************************)
(* CanonicalFormatter.  self is the object_stack: a sequence of frames,    *)
(* the front of the VecDeque first.  A call returns [self, writer, ret].   *)
(***************************************************************************)
CanonicalFormatter_new == <<>>

Return(self, w, ret) == [self |-> self, writer |-> w, ret |-> ret]

\* Mutant: push_back.
push_object_back(self) == self \o <<ObjectStackFrame_new>>

\* CanonicalFormatter::push_object: push_front
push_object(self) == <<ObjectStackFrame_new>> \o self

\* CanonicalFormatter::current_object: front_mut, of a stack that has one
current_object(self) == Head(self)

\* ObjectStackFrame::current_member: last_mut, of a frame that has one
current_member(members) == members[Len(members)]

\* self after a change of the current member of the current object, which
\* the code makes through the two &mut references
WithMember(self, member) ==
    <<[Head(self) EXCEPT ![Len(Head(self))] = member]>> \o Tail(self)

\* Mutant: a frame without a member is taken for no frame.
Emit_without_member_check(self, w, str) ==
    IF self # <<>> /\ current_object(self) # <<>>
    THEN LET member == current_member(current_object(self))
         IN Return(WithMember(self, push_str(member, str)), w, Ok)
    ELSE Return(self, w \o as_bytes(str), Ok)

\* The block every byte-producing method ends with: the text goes to the
\* current member of the current object, or to the writer when no object
\* is open.
Emit(self, w, str) ==
    IF self # <<>>
    THEN IF current_object(self) = <<>>
         THEN Return(self, w, MemberNotActive)
         ELSE LET member == current_member(current_object(self))
              IN Return(WithMember(self, push_str(member, str)), w, Ok)
    ELSE Return(self, w \o as_bytes(str), Ok)

\* Mutant: the text of the popped frame is emitted twice.
pop_object_emits_twice(self, w) ==
    IF self = <<>>
    THEN Return(self, w, ObjectNotActive)
    ELSE LET object == Head(self)
             popped == Tail(self)
             string == frame_string(object) \o frame_string(object)
         IN IF popped # <<>>
            THEN IF current_object(popped) = <<>>
                 THEN Return(popped, w, MemberNotActive)
                 ELSE LET member == current_member(current_object(popped))
                      IN Return(WithMember(popped, push_str(member, string)), w, Ok)
            ELSE Return(popped, w \o as_bytes(string), Ok)

\* CanonicalFormatter::pop_object
pop_object(self, w) ==
    IF self = <<>>
    THEN Return(self, w, ObjectNotActive)
    ELSE LET object == Head(self)
             popped == Tail(self)
             string == frame_string(object)
         IN IF popped # <<>>
            THEN IF current_object(popped) = <<>>
                 THEN Return(popped, w, MemberNotActive)
                 ELSE LET member == current_member(current_object(popped))
                      IN Return(WithMember(popped, push_str(member, string)), w, Ok)
            ELSE Return(popped, w \o as_bytes(string), Ok)

(***************************************************************************)
(* impl Formatter for CanonicalFormatter.                                  *)
(***************************************************************************)
write_f32(self, w, value) == Return(self, w, FloatForbidden)

\* Mutant: the float is written as text.
write_f64_as_text(self, w, value) == Emit(self, w, <<48, 46, 53>>)

write_f64(self, w, value) == Return(self, w, FloatForbidden)

\* The chars \d matches.  The regex crate's \d is Unicode-aware: the general
\* category Nd.  Of its blocks the model knows the ASCII digits and the
\* Arabic-Indic (U+0660..), Devanagari (U+0966..) and fullwidth (U+FF10..)
\* digits.
PerlDigit == (48..57) \cup (1632..1641) \cup (2406..2415) \cup (65296..65305)

\* RE.is_match(value), RE = ^\d$|^-[1-9]$|^-?[1-9]\d+$  ($ is the end of the
\* text: the pattern is not multi-line)
RE_is_match(value) ==
    \/ Len(value) = 1 /\ value[1] \in PerlDigit
    \/ Len(value) = 2 /\ value[1] = 45 /\ value[2] \in 49..57
    \/ \E sign \in {0, 1} :
          /\ Len(value) >= sign + 2
          /\ sign = 1 => value[1] = 45
          /\ value[sign + 1] \in 49..57
          /\ \A i \in (sign + 2)..Len(value) : value[i] \in PerlDigit

\* Mutant: the text is written before it is validated.
write_number_str_late_check(self, w, value) ==
    IF RE_is_match(value)
    THEN Emit(self, w, value)
    ELSE [Emit(self, w, value) EXCEPT !.ret = NumberInvalid]

write_number_str(self, w, value) ==
    IF RE_is_match(value)
    THEN Emit(self, w, value)
    ELSE Return(self, w, NumberInvalid)

\* serde_json::ser::CharEscape
CharEscapeKinds ==
    {"Quote", "ReverseSolidus", "Solidus", "Backspace", "FormFeed", "LineFeed",
     "CarriageReturn", "Tab"}

AsciiControl(byte) == [kind |-> "AsciiControl", byte |-> byte]

Escape(kind) == [kind |-> kind, byte |-> 0]

\* Mutant: the quote goes out without its backslash.
EscapeText_bare_quote(char_escape) ==
    CASE char_escape.kind = "Quote" -> <<34>>
      [] char_escape.kind = "ReverseSolidus" -> <<92, 92>>
      [] char_escape.kind = "Solidus" -> <<47>>
      [] char_escape.kind = "Backspace" -> <<8>>
      [] char_escape.kind = "FormFeed" -> <<12>>
      [] char_escape.kind = "LineFeed" -> <<10>>
      [] char_escape.kind = "CarriageReturn" -> <<13>>
      [] char_escape.kind = "Tab" -> <<9>>

\* Mutant: the escapes of serde_json's own formatter.
EscapeText_json(char_escape) ==
    CASE char_escape.kind = "Quote" -> <<92, 34>>
      [] char_escape.kind = "ReverseSolidus" -> <<92, 92>>
      [] char_escape.kind = "Solidus" -> <<92, 47>>
      [] char_escape.kind = "Backspace" -> <<92, 98>>
      [] char_escape.kind = "FormFeed" -> <<92, 102>>
      [] char_escape.kind = "LineFeed" -> <<92, 110>>
      [] char_escape.kind = "CarriageReturn" -> <<92, 114>>
      [] char_escape.kind = "Tab" -> <<92, 116>>

\* the match of write_char_escape, AsciiControl apart
EscapeText(char_escape) ==
    CASE char_escape.kind = "Quote" -> <<92, 34>>
      [] char_escape.kind = "ReverseSolidus" -> <<92, 92>>
      [] char_escape.kind = "Solidus" -> <<47>>
      [] char_escape.kind = "Backspace" -> <<8>>
      [] char_escape.kind = "FormFeed" -> <<12>>
      [] char_escape.kind = "LineFeed" -> <<10>>
      [] char_escape.kind = "CarriageReturn" -> <<13>>
      [] char_escape.kind = "Tab" -> <<9>>

write_char_escape(self, w, char_escape) ==
    IF char_escape.kind = "AsciiControl"
    THEN IF self # <<>>
         THEN IF current_object(self) = <<>>
              THEN Return(self, w, MemberNotActive)
              ELSE LET member == current_member(current_object(self))
                   IN Return(WithMember(self, push(member, char_escape.byte)), w, Ok)
         ELSE Return(self, Append(w, char_escape.byte), Ok)
    ELSE Emit(self, w, EscapeText(char_escape))

begin_object(self, w) == Return(push_object(self), w, Ok)

begin_object_key(self, w, first) ==
    IF self = <<>>
    THEN Return(self, w, KeyNotActive)
    ELSE Return(<<push_member(current_object(self))>> \o Tail(self), w, Ok)

begin_string(self, w) == Emit(self, w, <<34>>)

write_string_fragment(self, w, fragment) == Emit(self, w, fragment)

end_string(self, w) == Emit(self, w, <<34>>)

\* Mutant: a frame without a member is given one before the error returns.
end_object_key_adds_member(self, w) ==
    IF self = <<>>
    THEN Return(self, w, KeyNotActive)
    ELSE IF current_object(self) = <<>>
         THEN Return(<<push_member(current_object(self))>> \o Tail(self), w,
                     MemberNotActive)
         ELSE LET member == current_member(current_object(self))
              IN Return(WithMember(self, finish_key(member)), w, Ok)

end_object_key(self, w) ==
    IF self = <<>>
    THEN Return(self, w, KeyNotActive)
    ELSE IF current_object(self) = <<>>
         THEN Return(self, w, MemberNotActive)
         ELSE LET member == current_member(current_object(self))
              IN Return(WithMember(self, finish_key(member)), w, Ok)

begin_object_value(self, w) == Return(self, w, Ok)

end_object_value(self, w) == Return(self, w, Ok)

end_object(self, w) == pop_object(self, w)

write_null(self, w) == Emit(self, w, <<110, 117, 108, 108>>)

write_bool(self, w, value) ==
    Emit(self, w, IF value THEN <<116, 114, 117, 101>>
                           ELSE <<102, 97, 108, 115, 101>>)

(***************************************************************************)
(* Integers.  A value of i8 .. i128, u8 .. u128 is                         *)
(* [signed, bytes]: bytes is its two's complement, the most significant    *)
(* byte first (to_be_bytes), 1, 2, 4, 8 or 16 bytes wide.                  *)
(***************************************************************************)
\* the size bytes of a natural number n
RECURSIVE BigEndian(_, _)
BigEndian(n, size) ==
    IF size = 0 THEN <<>> ELSE Append(BigEndian(n \div 256, size - 1), n % 256)

\* wrapping_add(1)
RECURSIVE AddOne(_)
AddOne(bytes) ==
    IF bytes = <<>> THEN <<>>
    ELSE LET front == SubSeq(bytes, 1, Len(bytes) - 1)
             low == bytes[Len(bytes)]
         IN IF low = 255 THEN Append(AddOne(front), 0) ELSE Append(front, low + 1)

\* (!n).wrapping_add(1)
Negate(bytes) == AddOne([i \in 1..Len(bytes) |-> 255 - bytes[i]])

\* the value n (a small integer) of a type
Integer(signed, size, n) ==
    [signed |-> signed,
     bytes |-> IF n < 0 THEN Negate(BigEndian(0 - n, size)) ELSE BigEndian(n, size)]

\* iN::MIN, iN::MAX and uN::MAX
MinValue(size) ==
    [signed |-> TRUE, bytes |-> <<128>> \o [i \in 1..(size - 1) |-> 0]]
MaxValue(signed, size) ==
    [signed |-> signed,
     bytes |-> <<(IF signed THEN 127 ELSE 255)>> \o [i \in 1..(size - 1) |-> 255]]

\* the bytes of an integer typed method's argument, and whether it is signed
IntegerSize(method) ==
    CASE method \in {"write_i8", "write_u8"} -> 1
      [] method \in {"write_i16", "write_u16"} -> 2
      [] method \in {"write_i32", "write_u32"} -> 4
      [] method \in {"write_i64", "write_u64"} -> 8
      [] method \in {"write_i128", "write_u128"} -> 16

IntegerSigned(method) ==
    method \in {"write_i8", "write_i16", "write_i32", "write_i64", "write_i128"}

\* n / 10000 and n % 10000 of an unsigned number, carry being what the bytes
\* in front have left
RECURSIVE DivMod10000(_, _)
DivMod10000(bytes, carry) ==
    IF bytes = <<>> THEN [quotient |-> <<>>, remainder |-> carry]
    ELSE LET n == carry * 256 + Head(bytes)
             rest == DivMod10000(Tail(bytes), n % 10000)
         IN [quotient |-> <<n \div 10000>> \o rest.quotient,
             remainder |-> rest.remainder]

IsZero(bytes) == \A i \in 1..Len(bytes) : bytes[i] = 0

\* the four decimal digits of a number below 10000
FourDigits(n) ==
    <<48 + (n \div 1000), 48 + ((n \div 100) % 10), 48 + ((n \div 10) % 10),
      48 + (n % 10)>>

\* the decimal digits of a number below 10000, none of them a leading zero
LeadingDigits(n) ==
    CASE n >= 1000 -> FourDigits(n)
      [] n >= 100 -> SubSeq(FourDigits(n), 2, 4)
      [] n >= 10 -> SubSeq(FourDigits(n), 3, 4)
      [] OTHER -> <<48 + n>>

\* The decimal digits of an unsigned number, four digits a step.
RECURSIVE Digits(_)
Digits(bytes) ==
    LET d == DivMod10000(bytes, 0)
    IN IF IsZero(d.quotient) THEN LeadingDigits(d.remainder)
       ELSE Digits(d.quotient) \o FourDigits(d.remainder)

\* Mutant: the value is cast to the unsigned type and formatted.
itoa_format_as_unsigned(value) == Digits(value.bytes)

\* itoa::Buffer::format: the digits of the value, or of its negation as an
\* unsigned number behind a '-' when it is negative
itoa_format(value) ==
    IF value.signed /\ value.bytes[1] >= 128
    THEN <<45>> \o Digits(Negate(value.bytes))
    ELSE Digits(value.bytes)

write_i8(self, w, value) == Emit(self, w, itoa_format(value))

write_i16(self, w, value) == Emit(self, w, itoa_format(value))

write_i32(self, w, value) == Emit(self, w, itoa_format(value))

write_i64(self, w, value) == Emit(self, w, itoa_format(value))

write_i128(self, w, value) == Emit(self, w, itoa_format(value))

write_u8(self, w, value) == Emit(self, w, itoa_format(value))

write_u16(self, w, value) == Emit(self, w, itoa_format(value))

write_u32(self, w, value) == Emit(self, w, itoa_format(value))

write_u64(self, w, value) == Emit(self, w, itoa_format(value))

write_u128(self, w, value) == Emit(self, w, itoa_format(value))

\* Mutant: the bracket is written straight to the writer.
begin_array_to_writer(self, w) == Return(self, w \o <<91>>, Ok)

begin_array(self, w) == Emit(self, w, <<91>>)

end_array(self, w) == Emit(self, w, <<93>>)

\* Mutant: the comma is written before the first element too.
begin_array_value_always(self, w, first) == Emit(self, w, <<44>>)

begin_array_value(self, w, first) ==
    IF first THEN Return(self, w, Ok) ELSE Emit(self, w, <<44>>)

end_array_value(self, w) == Return(self, w, Ok)

write_raw_fragment(self, w, fragment) == Emit(self, w, fragment)

(***************************************************************************)
(* The session: an event source calls the formatter's methods on one       *)
(* formatter and one writer.  Three event sources are modelled:            *)
(*   "any"      calls every method, in any order, with arguments from      *)
(*              small sets, in sessions of at most MaxCalls calls;         *)
(*   "objects"  calls the methods that build objects, in any order, so     *)
(*              that frames nest and hold several members;                 *)
(*   "script"   makes the calls of a script fixed at the start.            *)
(***************************************************************************)
\* The arguments the event source "any" passes.
Fragments == {<<97>>}
NumberTexts == {<<48>>, <<48, 49>>}
CharEscapes == {Escape(k) : k \in CharEscapeKinds} \cup {AsciiControl(1)}
IntValues(method) == {Integer(IntegerSigned(method), IntegerSize(method), 0)}
Floats == {"0.5", "NaN"}
Unit == {"()"}

AnyArgs(method) ==
    CASE method \in {"write_string_fragment", "write_raw_fragment"} -> Fragments
      [] method = "write_number_str" -> NumberTexts
      [] method = "write_char_escape" -> CharEscapes
      [] method \in {"write_f32", "write_f64"} -> Floats
      [] method \in {"write_i8", "write_i16", "write_i32", "write_i64", "write_i128",
                     "write_u8", "write_u16", "write_u32", "write_u64", "write_u128"}
           -> IntValues(method)
      [] method \in {"write_bool", "begin_object_key", "begin_array_value"} -> BOOLEAN
      [] OTHER -> Unit

\* The arguments the event source "objects" passes.
ObjectsArgs(method) ==
    CASE method = "write_string_fragment" -> {<<97>>, <<98>>}
      [] method = "begin_object_key" -> BOOLEAN
      [] OTHER -> Unit

\* The arguments with which the event source src may call method now.
Offer(src, method) ==
    CASE src = "any" -> IF budget > 0 THEN AnyArgs(method) ELSE {}
      [] src = "objects" -> ObjectsArgs(method)
      [] src = "script" ->
           IF script # <<>> /\ Head(script).method = method
           THEN {Head(script).arg} ELSE {}

\* The chars held in the buffers of some members.
RECURSIVE MembersHeld(_)
MembersHeld(members) ==
    IF members = <<>> THEN 0
    ELSE Len(Head(members).key) + Len(Head(members).value)
           + MembersHeld(Tail(members))

\* The chars the frames on the stack will assemble to.
RECURSIVE Weight(_)
Weight(self) ==
    IF self = <<>> THEN 0
    ELSE LET members == Head(self)
         IN 2 + MembersHeld(members) + Len(members)
              + (IF Len(members) > 1 THEN Len(members) - 1 ELSE 0)
              + Weight(Tail(self))

\* The event source stays within its bounds.
Within(src, r) ==
    src = "objects" => Weight(r.self) + Len(r.writer) <= MaxWeight

\* A call of a method: its name and its argument, "()" when it has none
\* beside the writer.
TheCall(method, arg) == [method |-> method, arg |-> arg]

\* A call and its outcome become the state.
Call(src, call, r) ==
    /\ Within(src, r)
    /\ object_stack' = r.self
    /\ writer' = r.writer
    /\ result' = r.ret
    /\ failed' = (failed \/ r.ret # Ok)
    /\ last' = call
    /\ script' = IF src = "script" THEN Tail(script) ELSE script
    /\ doc' = doc
    /\ budget' = IF src = "any" THEN budget - 1 ELSE budget

Fresh ==
    /\ object_stack = CanonicalFormatter_new
    /\ writer = <<>>
    /\ result = Ok
    /\ failed = FALSE
    /\ last = TheCall("new", "()")

WriteF32(src) ==
    \E value \in Offer(src, "write_f32") :
        Call(src, TheCall("write_f32", value), write_f32(object_stack, writer, value))

WriteF64(src) ==
    \E value \in Offer(src, "write_f64") :
        Call(src, TheCall("write_f64", value), write_f64(object_stack, writer, value))

WriteNumberStr(src) ==
    \E value \in Offer(src, "write_number_str") :
        Call(src, TheCall("write_number_str", value), write_number_str(object_stack, writer, value))

WriteCharEscape(src) ==
    \E char_escape \in Offer(src, "write_char_escape") :
        Call(src, TheCall("write_char_escape", char_escape), write_char_escape(object_stack, writer, char_escape))

BeginObject(src) ==
    \E unit \in Offer(src, "begin_object") :
        Call(src, TheCall("begin_object", unit), begin_object(object_stack, writer))

BeginObjectKey(src) ==
    \E first \in Offer(src, "begin_object_key") :
        Call(src, TheCall("begin_object_key", first), begin_object_key(object_stack, writer, first))

BeginString(src) ==
    \E unit \in Offer(src, "begin_string") :
        Call(src, TheCall("begin_string", unit), begin_string(object_stack, writer))

WriteStringFragment(src) ==
    \E fragment \in Offer(src, "write_string_fragment") :
        Call(src, TheCall("write_string_fragment", fragment), write_string_fragment(object_stack, writer, fragment))

EndString(src) ==
    \E unit \in Offer(src, "end_string") :
        Call(src, TheCall("end_string", unit), end_string(object_stack, writer))

EndObjectKey(src) ==
    \E unit \in Offer(src, "end_object_key") :
        Call(src, TheCall("end_object_key", unit), end_object_key(object_stack, writer))

BeginObjectValue(src) ==
    \E unit \in Offer(src, "begin_object_value") :
        Call(src, TheCall("begin_object_value", unit), begin_object_value(object_stack, writer))

EndObjectValue(src) ==
    \E unit \in Offer(src, "end_object_value") :
        Call(src, TheCall("end_object_value", unit), end_object_value(object_stack, writer))

EndObject(src) ==
    \E unit \in Offer(src, "end_object") :
        Call(src, TheCall("end_object", unit), end_object(object_stack, writer))

WriteNull(src) ==
    \E unit \in Offer(src, "write_null") :
        Call(src, TheCall("write_null", unit), write_null(object_stack, writer))

WriteBool(src) ==
    \E value \in Offer(src, "write_bool") :
        Call(src, TheCall("write_bool", value), write_bool(object_stack, writer, value))

WriteI8(src) ==
    \E value \in Offer(src, "write_i8") :
        Call(src, TheCall("write_i8", value), write_i8(object_stack, writer, value))

WriteI16(src) ==
    \E value \in Offer(src, "write_i16") :
        Call(src, TheCall("write_i16", value), write_i16(object_stack, writer, value))

WriteI32(src) ==
    \E value \in Offer(src, "write_i32") :
        Call(src, TheCall("write_i32", value), write_i32(object_stack, writer, value))

WriteI64(src) ==
    \E value \in Offer(src, "write_i64") :
        Call(src, TheCall("write_i64", value), write_i64(object_stack, writer, value))

WriteI128(src) ==
    \E value \in Offer(src, "write_i128") :
        Call(src, TheCall("write_i128", value), write_i128(object_stack, writer, value))

WriteU8(src) ==
    \E value \in Offer(src, "write_u8") :
        Call(src, TheCall("write_u8", value), write_u8(object_stack, writer, value))

WriteU16(src) ==
    \E value \in Offer(src, "write_u16") :
        Call(src, TheCall("write_u16", value), write_u16(object_stack, writer, value))

WriteU32(src) ==
    \E value \in Offer(src, "write_u32") :
        Call(src, TheCall("write_u32", value), write_u32(object_stack, writer, value))

WriteU64(src) ==
    \E value \in Offer(src, "write_u64") :
        Call(src, TheCall("write_u64", value), write_u64(object_stack, writer, value))

WriteU128(src) ==
    \E value \in Offer(src, "write_u128") :
        Call(src, TheCall("write_u128", value), write_u128(object_stack, writer, value))

BeginArray(src) ==
    \E unit \in Offer(src, "begin_array") :
        Call(src, TheCall("begin_array", unit), begin_array(object_stack, writer))

EndArray(src) ==
    \E unit \in Offer(src, "end_array") :
        Call(src, TheCall("end_array", unit), end_array(object_stack, writer))

BeginArrayValue(src) ==
    \E first \in Offer(src, "begin_array_value") :
        Call(src, TheCall("begin_array_value", first), begin_array_value(object_stack, writer, first))

EndArrayValue(src) ==
    \E unit \in Offer(src, "end_array_value") :
        Call(src, TheCall("end_array_value", unit), end_array_value(object_stack, writer))

WriteRawFragment(src) ==
    \E fragment \in Offer(src, "write_raw_fragment") :
        Call(src, TheCall("write_raw_fragment", fragment), write_raw_fragment(object_stack, writer, fragment))

(***************************************************************************)
(* The values the event source "script" serialises, and the calls it makes *)
(* for a value: those of serde_json's Serializer, which tests.rs drives    *)
(* the formatter with.                                                     *)
(***************************************************************************)
Null == [t |-> "null"]
Bool(b) == [t |-> "bool", bool |-> b]
Number(i) == [t |-> "int", int |-> i]
Str(chars) == [t |-> "str", chars |-> chars]
Array(elements) == [t |-> "array", elements |-> elements]
\* members: a sequence of [k |-> the key's chars, v |-> the member's value]
Object(members) == [t |-> "object", members |-> members]

\* The escape serde_json asks for a char of a string, "None" for a char it
\* passes in a fragment.
EscapeOf(ch) ==
    CASE ch = 34 -> Escape("Quote")
      [] ch = 92 -> Escape("ReverseSolidus")
      [] ch = 8 -> Escape("Backspace")
      [] ch = 9 -> Escape("Tab")
      [] ch = 10 -> Escape("LineFeed")
      [] ch = 12 -> Escape("FormFeed")
      [] ch = 13 -> Escape("CarriageReturn")
      [] ch < 32 -> AsciiControl(ch)
      [] OTHER -> Escape("None")

\* The calls for the contents of a string: the runs of chars that need no
\* escape as fragments, the others as escapes.  run is the fragment under
\* way.
RECURSIVE ContentCalls(_, _)
ContentCalls(chars, run) ==
    LET flush == IF run = <<>> THEN <<>>
                 ELSE <<TheCall("write_string_fragment", run)>>
    IN IF chars = <<>> THEN flush
       ELSE IF EscapeOf(Head(chars)).kind = "None"
            THEN ContentCalls(Tail(chars), Append(run, Head(chars)))
            ELSE flush \o <<TheCall("write_char_escape", EscapeOf(Head(chars)))>>
                       \o ContentCalls(Tail(chars), <<>>)

StringCalls(chars) ==
    <<TheCall("begin_string", "()")>> \o ContentCalls(chars, <<>>)
        \o <<TheCall("end_string", "()")>>

RECURSIVE Calls(_)
RECURSIVE ElementCalls(_, _)
RECURSIVE MemberCalls(_, _)
ElementCalls(elements, first) ==
    IF elements = <<>> THEN <<>>
    ELSE <<TheCall("begin_array_value", first)>> \o Calls(Head(elements))
             \o <<TheCall("end_array_value", "()")>>
             \o ElementCalls(Tail(elements), FALSE)

MemberCalls(members, first) ==
    IF members = <<>> THEN <<>>
    ELSE <<TheCall("begin_object_key", first)>> \o StringCalls(Head(members).k)
             \o <<TheCall("end_object_key", "()"),
                  TheCall("begin_object_value", "()")>>
             \o Calls(Head(members).v)
             \o <<TheCall("end_object_value", "()")>>
             \o MemberCalls(Tail(members), FALSE)

Calls(value) ==
    CASE value.t = "null" -> <<TheCall("write_null", "()")>>
      [] value.t = "bool" -> <<TheCall("write_bool", value.bool)>>
      [] value.t = "int" -> <<TheCall("write_i64", Integer(TRUE, 8, value.int))>>
      [] value.t = "str" -> StringCalls(value.chars)
      [] value.t = "array" ->
           <<TheCall("begin_array", "()")>> \o ElementCalls(value.elements, TRUE)
               \o <<TheCall("end_array", "()")>>
      [] value.t = "object" ->
           <<TheCall("begin_object", "()")>> \o MemberCalls(value.members, TRUE)
               \o <<TheCall("end_object", "()")>>

\* The method of the formatter a call names, applied.
ApplyCall(self, w, call) ==
    CASE call.method = "write_f32" -> write_f32(self, w, call.arg)
      [] call.method = "write_f64" -> write_f64(self, w, call.arg)
      [] call.method = "write_number_str" -> write_number_str(self, w, call.arg)
      [] call.method = "write_char_escape" -> write_char_escape(self, w, call.arg)
      [] call.method = "begin_object" -> begin_object(self, w)
      [] call.method = "begin_object_key" -> begin_object_key(self, w, call.arg)
      [] call.method = "begin_string" -> begin_string(self, w)
      [] call.method = "write_string_fragment" -> write_string_fragment(self, w, call.arg)
      [] call.method = "end_string" -> end_string(self, w)
      [] call.method = "end_object_key" -> end_object_key(self, w)
      [] call.method = "begin_object_value" -> begin_object_value(self, w)
      [] call.method = "end_object_value" -> end_object_value(self, w)
      [] call.method = "end_object" -> end_object(self, w)
      [] call.method = "write_null" -> write_null(self, w)
      [] call.method = "write_bool" -> write_bool(self, w, call.arg)
      [] call.method = "write_i8" -> write_i8(self, w, call.arg)
      [] call.method = "write_i16" -> write_i16(self, w, call.arg)
      [] call.method = "write_i32" -> write_i32(self, w, call.arg)
      [] call.method = "write_i64" -> write_i64(self, w, call.arg)
      [] call.method = "write_i128" -> write_i128(self, w, call.arg)
      [] call.method = "write_u8" -> write_u8(self, w, call.arg)
      [] call.method = "write_u16" -> write_u16(self, w, call.arg)
      [] call.method = "write_u32" -> write_u32(self, w, call.arg)
      [] call.method = "write_u64" -> write_u64(self, w, call.arg)
      [] call.method = "write_u128" -> write_u128(self, w, call.arg)
      [] call.method = "begin_array" -> begin_array(self, w)
      [] call.method = "end_array" -> end_array(self, w)
      [] call.method = "begin_array_value" -> begin_array_value(self, w, call.arg)
      [] call.method = "end_array_value" -> end_array_value(self, w)
      [] call.method = "write_raw_fragment" -> write_raw_fragment(self, w, call.arg)

\* The Serializer makes its calls one after the other and gives up at the
\* first that fails (the ? of each call).
RECURSIVE Run(_, _, _)
Run(self, w, calls) ==
    IF calls = <<>> THEN Return(self, w, Ok)
    ELSE LET r == ApplyCall(self, w, Head(calls))
         IN IF r.ret # Ok THEN r ELSE Run(r.self, r.writer, Tail(calls))

\* value.serialize(&mut ser) with
\* ser = Serializer::with_formatter(Vec::new(), CanonicalFormatter::new())
Serialize(value) == Run(CanonicalFormatter_new, <<>>, Calls(value))

\* The sequences of at most n elements of S.
SeqsUpTo(S, n) == UNION {[1..k -> S] : k \in 0..n}

\* The objects of at most n members with pairwise distinct keys from K and
\* values from V, in every order of delivery.
ObjectsOf(K, V, n) ==
    {Object(ms) : ms \in
        {m \in SeqsUpTo([k : K, v : V], n) :
            \A i, j \in 1..Len(m) : i # j => m[i].k # m[j].k}}

ArraysOf(V, n) == {Array(es) : es \in SeqsUpTo(V, n)}

\* keys: a, b, Z and a quote (as chars the quote comes before Z, as
\* rendered keys the backslash of its escape comes after)
Keys == {<<97>>, <<98>>, <<90>>, <<34>>}

\* null, booleans, integers, and strings: empty, plain, with a quote and a
\* backslash, with a solidus, with control chars, with a char beyond ASCII
Leaves ==
    {Null, Bool(TRUE), Bool(FALSE), Number(-128), Number(19), Str(<<>>), Str(<<97>>),
     Str(<<34, 97, 92>>), Str(<<47>>), Str(<<97, 1, 10>>), Str(<<233>>)}

Inner ==
    {Number(2), Str(<<98>>), Str(<<9>>), Array(<<>>), Array(<<Number(4), Number(2)>>)}
        \cup ObjectsOf({<<97>>, <<98>>}, {Null}, 2)

Documents ==
    Leaves \cup ObjectsOf(Keys, Inner, MaxDocMembers)
           \cup ArraysOf(Inner, MaxDocElements)

(***************************************************************************)
(* Spec: the event source "any".                                           *)
(***************************************************************************)
Init == Fresh /\ doc = Null /\ script = <<>> /\ budget = MaxCalls

Next ==
    \/ WriteF32("any") \/ WriteF64("any") \/ WriteNumberStr("any")
    \/ WriteCharEscape("any") \/ BeginObject("any") \/ BeginObjectKey("any")
    \/ BeginString("any") \/ WriteStringFragment("any") \/ EndString("any")
    \/ EndObjectKey("any") \/ BeginObjectValue("any") \/ EndObjectValue("any")
    \/ EndObject("any") \/ WriteNull("any") \/ WriteBool("any")
    \/ WriteI8("any") \/ WriteI16("any") \/ WriteI32("any") \/ WriteI64("any")
    \/ WriteI128("any") \/ WriteU8("any") \/ WriteU16("any") \/ WriteU32("any")
    \/ WriteU64("any") \/ WriteU128("any") \/ BeginArray("any") \/ EndArray("any")
    \/ BeginArrayValue("any") \/ EndArrayValue("any") \/ WriteRawFragment("any")

Spec == Init /\ [][Next]_vars

(***************************************************************************)
(* SpecObjects: the event source "objects".                                *)
(***************************************************************************)
InitObjects == Fresh /\ doc = Null /\ script = <<>> /\ budget = 0

NextObjects ==
    \/ BeginObject("objects") \/ BeginObjectKey("objects")
    \/ WriteStringFragment("objects") \/ EndObjectKey("objects")
    \/ EndObject("objects")

SpecObjects == InitObjects /\ [][NextObjects]_vars

(***************************************************************************)
(* SpecScript: the event source "script" serialises one document.          *)
(***************************************************************************)
InitScript ==
    /\ Fresh
    /\ doc \in Documents
    /\ script = Calls(doc)
    /\ budget = 0

NextScript ==
    \/ WriteCharEscape("script") \/ BeginObject("script")
    \/ BeginObjectKey("script") \/ BeginString("script")
    \/ WriteStringFragment("script") \/ EndString("script")
    \/ EndObjectKey("script") \/ BeginObjectValue("script")
    \/ EndObjectValue("script") \/ EndObject("script") \/ WriteNull("script")
    \/ WriteBool("script") \/ WriteI64("script") \/ BeginArray("script")
    \/ EndArray("script") \/ BeginArrayValue("script")
    \/ EndArrayValue("script")

SpecScript == InitScript /\ [][NextScript]_vars

(***************************************************************************)
(* SpecNumbers: the event source "script" brings the formatter into one of *)
(* its four states and passes one text to write_number_str.                *)
(***************************************************************************)
\* 0 1 5 9 - . e and the Arabic-Indic digit three (U+0663)
NumberAlphabet == {48, 49, 53, 57, 45, 46, 101, 1635}

NumberLiterals == SeqsUpTo(NumberAlphabet, MaxNumberLen)

NumberPrefixes ==
    {<<>>,
     <<TheCall("begin_object", "()")>>,
     <<TheCall("begin_object", "()"), TheCall("begin_object_key", TRUE)>>,
     <<TheCall("begin_object", "()"), TheCall("begin_object_key", TRUE),
       TheCall("end_object_key", "()")>>}

InitNumbers ==
    /\ Fresh
    /\ doc = Null
    /\ script \in {prefix \o <<TheCall("write_number_str", text)>> :
                       prefix \in NumberPrefixes, text \in NumberLiterals}
    /\ budget = 0

NextNumbers ==
    \/ BeginObject("script") \/ BeginObjectKey("script")
    \/ EndObjectKey("script") \/ WriteNumberStr("script")

SpecNumbers == InitNumbers /\ [][NextNumbers]_vars

(***************************************************************************)
(* SpecIntegers: the event source "script" brings the formatter into one   *)
(* of its four states and passes one value to one of the integer typed     *)
(* methods.                                                                *)
(***************************************************************************)
IntegerMethods ==
    {"write_i8", "write_i16", "write_i32", "write_i64", "write_i128",
     "write_u8", "write_u16", "write_u32", "write_u64", "write_u128"}

\* the least and the greatest value of the type, and values around zero
\* and around the powers of ten
IntegersOf(method) ==
    LET signed == IntegerSigned(method)
        size == IntegerSize(method)
    IN {MaxValue(signed, size)}
         \cup {Integer(signed, size, n) : n \in {0, 1, 9, 10, 99, 100, 127}}
         \cup (IF signed
               THEN {MinValue(size)}
                      \cup {Integer(signed, size, 0 - n) : n \in {1, 9, 10, 100, 127}}
               ELSE {})

InitIntegers ==
    /\ Fresh
    /\ doc = Null
    /\ script \in {prefix \o <<TheCall(method, value)>> :
                       prefix \in NumberPrefixes,
                       <<method, value>> \in
                           UNION {{<<m, v>> : v \in IntegersOf(m)} : m \in IntegerMethods}}
    /\ budget = 0

NextIntegers ==
    \/ BeginObject("script") \/ BeginObjectKey("script")
    \/ EndObjectKey("script")
    \/ WriteI8("script") \/ WriteI16("script") \/ WriteI32("script")
    \/ WriteI64("script") \/ WriteI128("script")
    \/ WriteU8("script") \/ WriteU16("script") \/ WriteU32("script")
    \/ WriteU64("script") \/ WriteU128("script")

SpecIntegers == InitIntegers /\ [][NextIntegers]_vars

(***************************************************************************)
(*                              The claims                                 *)
(***************************************************************************)
\* The four states of the formatter a call can meet.
NoFrame == object_stack = <<>>
NoMember == object_stack # <<>> /\ Head(object_stack) = <<>>
InKey ==
    /\ object_stack # <<>> /\ Head(object_stack) # <<>>
    /\ ~Head(object_stack)[Len(Head(object_stack))].key_finished
InValue ==
    /\ object_stack # <<>> /\ Head(object_stack) # <<>>
    /\ Head(object_stack)[Len(Head(object_stack))].key_finished

\* The current member of the topmost frame of a stack.
CurrentMember(self) == current_member(current_object(self))

\* text is what a step appended to sequence before, giving after
Appended(before, after, text) == after = before \o text

(***************************************************************************)
(* C1.  Whatever the order in which the members of an object arrive, the   *)
(* text end_object produces lists them in ascending byte order of their    *)
(* rendered key texts (quotes and escapes included): of two adjacent       *)
(* members the first key is byte-wise less than or equal to the second.    *)
(***************************************************************************)
\* byte sequence a is lexicographically less than or equal to b
C1_BytesLeq(a, b) ==
    \E n \in 0..Len(a) :
        /\ n <= Len(b)
        /\ \A i \in 1..n : a[i] = b[i]
        /\ \/ n = Len(a)
           \/ n < Len(b) /\ a[n + 1] < b[n + 1]

\* the orders in which n members can be listed
C1_Orders(n) == {order \in [1..n -> 1..n] : \A i, j \in 1..n : i # j => order[i] # order[j]}

\* the text of an object that lists the members in the given order
RECURSIVE C1_Listed(_, _, _)
C1_Listed(members, order, i) ==
    IF i > Len(members) THEN <<>>
    ELSE (IF i = 1 THEN <<>> ELSE <<44>>)
           \o members[order[i]].key \o <<58>> \o members[order[i]].value
           \o C1_Listed(members, order, i + 1)

C1_Text(members, order) == <<123>> \o C1_Listed(members, order, 1) \o <<125>>

C1_KeysAscend(members, order) ==
    \A i \in 1..(Len(members) - 1) :
        C1_BytesLeq(as_bytes(members[order[i]].key),
                    as_bytes(members[order[i + 1]].key))

C1_MembersAscend ==
    [][(last'.method = "end_object" /\ result' = Ok) =>
          LET members == Head(object_stack)
          IN \E order \in C1_Orders(Len(members)) :
                /\ C1_KeysAscend(members, order)
                /\ IF Tail(object_stack) = <<>>
                   THEN Appended(writer, writer', as_bytes(C1_Text(members, order)))
                   ELSE /\ writer' = writer
                        /\ Appended(CurrentMember(Tail(object_stack)).value,
                                    CurrentMember(object_stack').value,
                                    C1_Text(members, order))]_vars

\* an object whose member "Z" arrived behind its member with the key of one
\* quote has been written with "Z" in front
C1_Witness ==
    /\ script = <<>>
    /\ last.method = "end_object" /\ result = Ok
    /\ doc.t = "object" /\ Len(doc.members) = 2
    /\ doc.members[1].k = <<34>> /\ doc.members[2].k = <<90>>
    /\ SubSeq(writer, 1, 4) = <<123, 34, 90, 34>>

(***************************************************************************)
(* C2.  Determinism under reordering: two sequences of calls that describe *)
(* the same document and differ only in the order in which the members of  *)
(* its objects (of pairwise distinct keys) are delivered leave the same    *)
(* bytes in the writer; and the same sequence replayed on a fresh          *)
(* formatter gives the same bytes.                                         *)
(***************************************************************************)
\* the document with the members of every object put in one fixed order,
\* that of the chars of their keys
RECURSIVE C2_Canonical(_)
C2_Canonical(value) ==
    CASE value.t = "array" ->
           Array([i \in 1..Len(value.elements) |-> C2_Canonical(value.elements[i])])
      [] value.t = "object" ->
           LET ms == value.members
               order == CHOOSE o \in C1_Orders(Len(ms)) :
                           \A i \in 1..(Len(ms) - 1) :
                               C1_BytesLeq(ms[o[i]].k, ms[o[i + 1]].k)
           IN Object([i \in 1..Len(ms) |->
                        [k |-> ms[order[i]].k, v |-> C2_Canonical(ms[order[i]].v)]])
      [] OTHER -> value

C2_Deterministic ==
    script = <<>> =>
        LET replayed == Serialize(doc)
            reordered == Serialize(C2_Canonical(doc))
        IN /\ result = Ok /\ replayed.ret = Ok /\ reordered.ret = Ok
           /\ writer = replayed.writer
           /\ writer = reordered.writer

\* an object delivered b first, whose member b is an object delivered b
\* first, has left the bytes its reordered delivery leaves
C2_Witness ==
    /\ script = <<>>
    /\ doc.t = "object" /\ Len(doc.members) = 2
    /\ doc.members[1].k = <<98>> /\ doc.members[2].k = <<97>>
    /\ doc.members[1].v.t = "object" /\ Len(doc.members[1].v.members) = 2
    /\ doc.members[1].v.members[1].k = <<98>>
    /\ writer = Serialize(C2_Canonical(doc)).writer
    /\ SubSeq(writer, 1, 5) = <<123, 34, 97, 34, 58>>

(***************************************************************************)
(* C4.  write_f32 and write_f64 return the unsupported-float error for     *)
(* every value and in every state of the formatter, write no byte to the   *)
(* writer and change no frame and no member.                               *)
(***************************************************************************)
C4_FloatsRejected ==
    [][last'.method \in {"write_f32", "write_f64"} =>
          /\ result' \in UnsupportedFloat
          /\ writer' = writer
          /\ object_stack' = object_stack]_vars

\* a float write has met a member in its value phase
C4_Witness ==
    /\ last.method = "write_f64"
    /\ result = FloatForbidden
    /\ InValue

(***************************************************************************)
(* C5.  write_char_escape translates by the fixed table: Quote gives       *)
(* backslash-quote, ReverseSolidus two backslashes, Solidus '/', the named *)
(* controls and AsciiControl(b) the raw byte; so a backslash comes from an *)
(* escape only for Quote and ReverseSolidus, whether the destination is    *)
(* the writer, a key buffer or a value buffer.                             *)
(***************************************************************************)
C5_Table(char_escape) ==
    LET kind == char_escape.kind
    IN IF kind = "Quote" THEN <<92, 34>>
       ELSE IF kind = "ReverseSolidus" THEN <<92, 92>>
       ELSE IF kind = "Solidus" THEN <<47>>
       ELSE IF kind = "Backspace" THEN <<8>>
       ELSE IF kind = "FormFeed" THEN <<12>>
       ELSE IF kind = "LineFeed" THEN <<10>>
       ELSE IF kind = "CarriageReturn" THEN <<13>>
       ELSE IF kind = "Tab" THEN <<9>>
       ELSE <<char_escape.byte>>

C5_EscapeTable ==
    [][(last'.method = "write_char_escape" /\ result' = Ok) =>
          LET text == C5_Table(last'.arg)
              old == IF NoFrame THEN <<>> ELSE CurrentMember(object_stack)
              new == IF NoFrame THEN <<>> ELSE CurrentMember(object_stack')
          IN /\ (\E i \in 1..Len(text) : text[i] = 92)
                   => last'.arg.kind \in {"Quote", "ReverseSolidus"}
             /\ NoFrame => Appended(writer, writer', text)
                             /\ object_stack' = object_stack
             /\ InKey => Appended(old.key, new.key, text)
                           /\ new.value = old.value /\ writer' = writer
             /\ InValue => Appended(old.value, new.value, text)
                             /\ new.key = old.key /\ writer' = writer]_vars

\* an AsciiControl escape has put its raw byte into a value buffer
C5_Witness ==
    /\ last.method = "write_char_escape"
    /\ last.arg.kind = "AsciiControl"
    /\ result = Ok
    /\ InValue
    /\ CurrentMember(object_stack).value = <<last.arg.byte>>

(***************************************************************************)
(* C3.  write_number_str accepts a text if and only if it matches the      *)
(* number grammar of the specification; every other text is rejected with  *)
(* the invalid-number-literal error.                                       *)
(***************************************************************************)
\* the number grammar of the specification: digit | "-" digit1-9 |
\* digit1-9 digit* | "-" digit1-9 digit+ , over the ASCII digits
C3_Grammar(text) ==
    LET digit(c) == c \in 48..57
        digit19(c) == c \in 49..57
        n == Len(text)
    IN \/ n = 1 /\ digit(text[1])
       \/ n = 2 /\ text[1] = 45 /\ digit19(text[2])
       \/ n >= 2 /\ digit19(text[1]) /\ \A i \in 2..n : digit(text[i])
       \/ n >= 3 /\ text[1] = 45 /\ digit19(text[2]) /\ \A i \in 3..n : digit(text[i])

C3_GrammarDecides ==
    [][last'.method = "write_number_str" =>
          (result' \notin InvalidNumberLiteral <=> C3_Grammar(last'.arg))]_vars

(***************************************************************************)
(* C6.  Round trip: every logical value (objects, arrays, booleans, null,  *)
(* integers and strings, also strings with a quote, a backslash or an      *)
(* ASCII control char below 0x20), written through the formatter and read  *)
(* back by a standard JSON parser, which rejects unescaped control chars   *)
(* in strings, is read with success and equals the original.               *)
(***************************************************************************)
\* The parser: RFC 8259 over the bytes of a text.  A parse gives
\* [ok, value, pos]: pos is the place behind what was read.
C6_Failed == [ok |-> FALSE, value |-> Null, pos |-> 0]

C6_Read(value, pos) == [ok |-> TRUE, value |-> value, pos |-> pos]

C6_At(bytes, pos) == IF pos <= Len(bytes) THEN bytes[pos] ELSE -1

\* the place of the first byte at or behind pos that is no white space
RECURSIVE C6_SkipSpace(_, _)
C6_SkipSpace(bytes, pos) ==
    IF C6_At(bytes, pos) \in {32, 9, 10, 13} THEN C6_SkipSpace(bytes, pos + 1) ELSE pos

C6_Literal(bytes, pos, text, value) ==
    IF SubSeq(bytes, pos, pos + Len(text) - 1) = text
    THEN C6_Read(value, pos + Len(text)) ELSE C6_Failed

C6_HexValue(byte) ==
    IF byte \in 48..57 THEN byte - 48
    ELSE IF byte \in 65..70 THEN byte - 55
    ELSE IF byte \in 97..102 THEN byte - 87
    ELSE -1

\* the char of a two-character escape, -1 where there is none
C6_Unescaped(byte) ==
    CASE byte = 34 -> 34
      [] byte = 92 -> 92
      [] byte = 47 -> 47
      [] byte = 98 -> 8
      [] byte = 102 -> 12
      [] byte = 110 -> 10
      [] byte = 114 -> 13
      [] byte = 116 -> 9
      [] OTHER -> -1

\* the chars of a string from pos, behind its opening quote, to its closing
\* quote; UTF-8 is decoded, a byte below 0x20 is an error
RECURSIVE C6_StringBody(_, _, _)
C6_StringBody(bytes, pos, chars) ==
    LET b1 == C6_At(bytes, pos)
        b2 == C6_At(bytes, pos + 1)
        b3 == C6_At(bytes, pos + 2)
        hex == [i \in 1..4 |-> C6_HexValue(C6_At(bytes, pos + 1 + i))]
    IN IF b1 = 34 THEN C6_Read(Str(chars), pos + 1)
       ELSE IF b1 < 32 THEN C6_Failed
       ELSE IF b1 = 92
            THEN IF C6_Unescaped(b2) >= 0
                 THEN C6_StringBody(bytes, pos + 2, Append(chars, C6_Unescaped(b2)))
                 ELSE IF b2 = 117 /\ \A i \in 1..4 : hex[i] >= 0
                      THEN C6_StringBody(bytes, pos + 6,
                               Append(chars, 4096 * hex[1] + 256 * hex[2]
                                                 + 16 * hex[3] + hex[4]))
                      ELSE C6_Failed
       ELSE IF b1 < 128 THEN C6_StringBody(bytes, pos + 1, Append(chars, b1))
       ELSE IF b1 \in 194..223 /\ b2 \in 128..191
            THEN C6_StringBody(bytes, pos + 2,
                     Append(chars, (b1 - 192) * 64 + (b2 - 128)))
       ELSE IF b1 \in 224..239 /\ b2 \in 128..191 /\ b3 \in 128..191
            THEN C6_StringBody(bytes, pos + 3,
                     Append(chars, (b1 - 224) * 4096 + (b2 - 128) * 64 + (b3 - 128)))
       ELSE C6_Failed

C6_String(bytes, pos) ==
    IF C6_At(bytes, pos) = 34 THEN C6_StringBody(bytes, pos + 1, <<>>) ELSE C6_Failed

\* the digits from pos on
RECURSIVE C6_Digits(_, _, _)
C6_Digits(bytes, pos, n) ==
    IF C6_At(bytes, pos) \in 48..57
    THEN C6_Digits(bytes, pos + 1, 10 * n + (C6_At(bytes, pos) - 48))
    ELSE C6_Read(Number(n), pos)

\* an integer: "-"? ( "0" | digit1-9 digit* ).  The logical values hold no
\* number with a fraction or an exponent: such a text is not read.
C6_Number(bytes, pos) ==
    LET minus == C6_At(bytes, pos) = 45
        from == IF minus THEN pos + 1 ELSE pos
        read == IF C6_At(bytes, from) = 48 THEN C6_Read(Number(0), from + 1)
                ELSE IF C6_At(bytes, from) \in 49..57 THEN C6_Digits(bytes, from, 0)
                ELSE C6_Failed
    IN IF ~read.ok \/ C6_At(bytes, read.pos) \in {46, 101, 69} THEN C6_Failed
       ELSE IF minus THEN C6_Read(Number(0 - read.value.int), read.pos)
       ELSE read

RECURSIVE C6_Value(_, _)
RECURSIVE C6_Elements(_, _, _)
RECURSIVE C6_Members(_, _, _)
\* the elements of an array behind those read, up to its ']'
C6_Elements(bytes, pos, elements) ==
    LET element == C6_Value(bytes, C6_SkipSpace(bytes, pos))
        behind == C6_SkipSpace(bytes, element.pos)
    IN IF ~element.ok THEN C6_Failed
       ELSE IF C6_At(bytes, behind) = 44
            THEN C6_Elements(bytes, behind + 1, Append(elements, element.value))
       ELSE IF C6_At(bytes, behind) = 93
            THEN C6_Read(Array(Append(elements, element.value)), behind + 1)
       ELSE C6_Failed

\* the members of an object behind those read, up to its '}'
C6_Members(bytes, pos, members) ==
    LET key == C6_String(bytes, C6_SkipSpace(bytes, pos))
        colon == C6_SkipSpace(bytes, key.pos)
        value == C6_Value(bytes, C6_SkipSpace(bytes, colon + 1))
        behind == C6_SkipSpace(bytes, value.pos)
        member == [k |-> key.value.chars, v |-> value.value]
    IN IF ~key.ok \/ C6_At(bytes, colon) # 58 THEN C6_Failed
       ELSE IF ~value.ok THEN C6_Failed
       ELSE IF C6_At(bytes, behind) = 44
            THEN C6_Members(bytes, behind + 1, Append(members, member))
       ELSE IF C6_At(bytes, behind) = 125
            THEN C6_Read(Object(Append(members, member)), behind + 1)
       ELSE C6_Failed

C6_Value(bytes, pos) ==
    LET byte == C6_At(bytes, pos)
        inside == C6_SkipSpace(bytes, pos + 1)
    IN CASE byte = 110 -> C6_Literal(bytes, pos, <<110, 117, 108, 108>>, Null)
         [] byte = 116 -> C6_Literal(bytes, pos, <<116, 114, 117, 101>>, Bool(TRUE))
         [] byte = 102 -> C6_Literal(bytes, pos, <<102, 97, 108, 115, 101>>, Bool(FALSE))
         [] byte = 34 -> C6_String(bytes, pos)
         [] byte = 45 \/ byte \in 48..57 -> C6_Number(bytes, pos)
         [] byte = 91 ->
              IF C6_At(bytes, inside) = 93 THEN C6_Read(Array(<<>>), inside + 1)
              ELSE C6_Elements(bytes, inside, <<>>)
         [] byte = 123 ->
              IF C6_At(bytes, inside) = 125 THEN C6_Read(Object(<<>>), inside + 1)
              ELSE C6_Members(bytes, inside, <<>>)
         [] OTHER -> C6_Failed

\* serde_json::from_str: one value and nothing but white space behind it
C6_Parse(bytes) ==
    LET read == C6_Value(bytes, C6_SkipSpace(bytes, 1))
    IN IF read.ok /\ C6_SkipSpace(bytes, read.pos) = Len(bytes) + 1
       THEN read ELSE C6_Failed

\* two logical values are equal: the members of an object count by their
\* keys, not by their order
RECURSIVE C6_Equal(_, _)
C6_Equal(a, b) ==
    /\ a.t = b.t
    /\ CASE a.t = "null" -> TRUE
         [] a.t = "bool" -> a.bool = b.bool
         [] a.t = "int" -> a.int = b.int
         [] a.t = "str" -> a.chars = b.chars
         [] a.t = "array" ->
              /\ Len(a.elements) = Len(b.elements)
              /\ \A i \in 1..Len(a.elements) : C6_Equal(a.elements[i], b.elements[i])
         [] a.t = "object" ->
              /\ Len(a.members) = Len(b.members)
              /\ \A i \in 1..Len(a.members) : \E j \in 1..Len(b.members) :
                    /\ a.members[i].k = b.members[j].k
                    /\ C6_Equal(a.members[i].v, b.members[j].v)

C6_PlainChars(chars) == \A i \in 1..Len(chars) : chars[i] >= 32

\* no string and no key of the value holds a char below 0x20
RECURSIVE C6_Plain(_)
C6_Plain(value) ==
    CASE value.t = "str" -> C6_PlainChars(value.chars)
      [] value.t = "array" ->
           \A i \in 1..Len(value.elements) : C6_Plain(value.elements[i])
      [] value.t = "object" ->
           \A i \in 1..Len(value.members) :
               C6_PlainChars(value.members[i].k) /\ C6_Plain(value.members[i].v)
      [] OTHER -> TRUE

\* C6 as it stands: every value is read back
C6_RoundTrip ==
    script = <<>> =>
        /\ result = Ok
        /\ C6_Parse(writer).ok
        /\ C6_Equal(C6_Parse(writer).value, doc)

\* C6 for the values without a char below 0x20 in a string or a key: the
\* text written is read back with success and as a value equal to the original
C6_RoundTripPlain ==
    (script = <<>> /\ C6_Plain(doc)) =>
        /\ result = Ok
        /\ C6_Parse(writer).ok
        /\ C6_Equal(C6_Parse(writer).value, doc)

\* an object with the key of one quote, Z delivered first, has been read back
C6_Witness ==
    /\ script = <<>>
    /\ doc.t = "object" /\ Len(doc.members) = 2
    /\ doc.members[1].k = <<90>> /\ doc.members[2].k = <<34>>
    /\ doc.members[2].v.t = "array" /\ Len(doc.members[2].v.elements) = 2
    /\ C6_Parse(writer).ok
    /\ C6_Parse(writer).value.members[2].k = <<34>>
    /\ C6_Equal(C6_Parse(writer).value, doc)

(***************************************************************************)
(* C7.  Arrays keep the order of their events: the elements of an array,   *)
(* at top level or in the value of a member, stand between '[' and ']' in  *)
(* the order they arrived, with one ',' between two elements and none      *)
(* before the first; also when the elements are objects (each sorted by    *)
(* its keys), and closing an enclosing object reorders no element.         *)
(***************************************************************************)
\* the chars of a string as they are written: the quote and the backslash
\* behind a backslash, every other char as it is
RECURSIVE C7_Chars(_)
C7_Chars(chars) ==
    IF chars = <<>> THEN <<>>
    ELSE (IF Head(chars) \in {34, 92} THEN <<92, Head(chars)>> ELSE <<Head(chars)>>)
           \o C7_Chars(Tail(chars))

C7_Quoted(chars) == <<34>> \o C7_Chars(chars) \o <<34>>

RECURSIVE C7_Natural(_)
C7_Natural(n) ==
    IF n < 10 THEN <<48 + n>> ELSE C7_Natural(n \div 10) \o <<48 + (n % 10)>>

\* the texts of a sequence with one comma between two of them
RECURSIVE C7_Joined(_)
C7_Joined(texts) ==
    IF texts = <<>> THEN <<>>
    ELSE IF Len(texts) = 1 THEN texts[1]
    ELSE texts[1] \o <<44>> \o C7_Joined(Tail(texts))

\* the text of a value: the elements of an array in their order, the
\* members of an object in the ascending byte order of their quoted keys
RECURSIVE C7_Text(_)
C7_Text(value) ==
    CASE value.t = "null" -> <<110, 117, 108, 108>>
      [] value.t = "bool" ->
           IF value.bool THEN <<116, 114, 117, 101>> ELSE <<102, 97, 108, 115, 101>>
      [] value.t = "int" ->
           IF value.int < 0 THEN <<45>> \o C7_Natural(0 - value.int)
           ELSE C7_Natural(value.int)
      [] value.t = "str" -> C7_Quoted(value.chars)
      [] value.t = "array" ->
           <<91>> \o C7_Joined([i \in 1..Len(value.elements) |->
                                   C7_Text(value.elements[i])]) \o <<93>>
      [] value.t = "object" ->
           LET ms == value.members
               order == CHOOSE o \in C1_Orders(Len(ms)) :
                           \A i \in 1..(Len(ms) - 1) :
                               C1_BytesLeq(as_bytes(C7_Quoted(ms[o[i]].k)),
                                           as_bytes(C7_Quoted(ms[o[i + 1]].k)))
           IN <<123>> \o C7_Joined([i \in 1..Len(ms) |->
                                      C7_Quoted(ms[order[i]].k) \o <<58>>
                                          \o C7_Text(ms[order[i]].v)]) \o <<125>>

\* the value is an array or holds one
RECURSIVE C7_HoldsArray(_)
C7_HoldsArray(value) ==
    \/ value.t = "array"
    \/ /\ value.t = "object"
       /\ \E i \in 1..Len(value.members) : C7_HoldsArray(value.members[i].v)

C7_ArraysKeepOrder ==
    (script = <<>> /\ C7_HoldsArray(doc)) =>
        /\ result = Ok
        /\ writer = as_bytes(C7_Text(doc))

\* [{"b":null,"a":null},[4,2]] has been written as [{"a":null,"b":null},[4,2]]
C7_Witness ==
    /\ script = <<>>
    /\ doc = Array(<<Object(<<[k |-> <<98>>, v |-> Null], [k |-> <<97>>, v |-> Null]>>),
                     Array(<<Number(4), Number(2)>>)>>)
    /\ writer = <<91, 123, 34, 97, 34, 58, 110, 117, 108, 108, 44,
                  34, 98, 34, 58, 110, 117, 108, 108, 125, 44,
                  91, 52, 44, 50, 93, 93>>

(***************************************************************************)
(* C8.  Sorting is local to the frame end_object pops: in every other      *)
(* frame the sequence of members, their key texts and their key_finished   *)
(* flags are unchanged; the only change outside the popped frame is the    *)
(* assembled text appended to the current member of the new topmost frame, *)
(* or written to the writer when the stack becomes empty.                  *)
(***************************************************************************)
\* frame after has the members of frame before, with the same key texts
\* and flags, and the same value texts but for the members in changed
C8_SameMembers(before, after, changed) ==
    /\ Len(after) = Len(before)
    /\ \A m \in 1..Len(before) :
          /\ after[m].key = before[m].key
          /\ after[m].key_finished = before[m].key_finished
          /\ m \notin changed => after[m].value = before[m].value

C8_SortingLocal ==
    [][(last'.method = "end_object" /\ object_stack # <<>>) =>
          LET rest == Tail(object_stack)
              text == frame_string(Head(object_stack))
          IN /\ Len(object_stack') = Len(rest)
             /\ \A f \in 1..Len(rest) :
                   C8_SameMembers(rest[f], object_stack'[f],
                                  IF f = 1 /\ result' = Ok THEN {Len(rest[1])} ELSE {})
             /\ IF rest = <<>>
                THEN Appended(writer, writer', as_bytes(text))
                ELSE /\ writer' = writer
                     /\ result' = Ok =>
                           Appended(CurrentMember(rest).value,
                                    CurrentMember(object_stack').value, text)]_vars

(***************************************************************************)
(* C9.  Protocol violations are errors: end_object, begin_object_key and   *)
(* end_object_key with an empty stack fail; end_object_key on a frame      *)
(* without a member fails; and every byte-producing call fails when a      *)
(* frame is open and has no member.                                        *)
(***************************************************************************)
C9_ByteProducing(call) ==
    \/ call.method \in
         {"begin_string", "end_string", "write_string_fragment",
          "write_char_escape", "write_null", "write_bool", "write_i8",
          "write_i16", "write_i32", "write_i64", "write_i128", "write_u8",
          "write_u16", "write_u32", "write_u64", "write_u128",
          "write_raw_fragment", "begin_array", "end_array"}
    \/ call.method = "write_number_str" /\ C3_Grammar(call.arg)
    \/ call.method = "begin_array_value" /\ call.arg = FALSE

C9_ProtocolViolations ==
    [][/\ (NoFrame /\ last'.method \in
              {"end_object", "begin_object_key", "end_object_key"})
          => result' \in ProtocolViolation
       /\ (NoMember /\ (last'.method = "end_object_key" \/ C9_ByteProducing(last')))
          => result' \in ProtocolViolation]_vars

\* a comma of a second array element has met a frame without a member
C9_Witness ==
    /\ last = TheCall("begin_array_value", FALSE)
    /\ result = MemberNotActive
    /\ NoMember

(***************************************************************************)
(* C10.  As claimed: once a call of a session has returned an error, no    *)
(* later call of the session succeeds or adds bytes to the writer.         *)
(***************************************************************************)
C10_ErrorAbortsSession ==
    [][failed => (result' # Ok /\ writer' = writer)]_vars

\* C10 as amended: the call that returns the error adds no byte to the
\* writer; the formatter keeps no error state, and it is for the caller to
\* stop.
C10_ErrorWritesNothing ==
    [][result' # Ok => writer' = writer]_vars

\* a call has failed after bytes reached the writer
C10_Witness ==
    /\ result # Ok
    /\ writer # <<>>
    /\ last.method = "write_number_str"

(***************************************************************************)
(* C11.  Routing depends on the state of the stack alone: the bytes of a   *)
(* byte-producing call go to exactly one destination, the writer when the  *)
(* stack is empty, the key of the last member of the topmost frame when    *)
(* its key_finished is false, its value when key_finished is true; for     *)
(* strings, escapes, scalars, numbers, raw fragments and array delimiters  *)
(* alike.                                                                  *)
(***************************************************************************)
\* sequence after is sequence before with something behind it
C11_Extended(before, after) ==
    /\ Len(before) < Len(after)
    /\ SubSeq(after, 1, Len(before)) = before

\* the stack is as before but for the current member of its topmost frame
C11_OnlyCurrentMember(before, after) ==
    /\ Len(after) = Len(before)
    /\ Tail(after) = Tail(before)
    /\ Len(Head(after)) = Len(Head(before))
    /\ \A m \in 1..(Len(Head(before)) - 1) : Head(after)[m] = Head(before)[m]
    /\ CurrentMember(after).key_finished = CurrentMember(before).key_finished

C11_RoutedByState ==
    [][(C9_ByteProducing(last') /\ result' = Ok) =>
          /\ NoFrame =>
                /\ C11_Extended(writer, writer')
                /\ object_stack' = object_stack
          /\ InKey =>
                /\ writer' = writer
                /\ C11_OnlyCurrentMember(object_stack, object_stack')
                /\ C11_Extended(CurrentMember(object_stack).key,
                                CurrentMember(object_stack').key)
                /\ CurrentMember(object_stack').value = CurrentMember(object_stack).value
          /\ InValue =>
                /\ writer' = writer
                /\ C11_OnlyCurrentMember(object_stack, object_stack')
                /\ C11_Extended(CurrentMember(object_stack).value,
                                CurrentMember(object_stack').value)
                /\ CurrentMember(object_stack').key = CurrentMember(object_stack).key]_vars

\* a scalar has been routed into the key of a member, the writer untouched
C11_Witness ==
    /\ last.method = "write_null" /\ result = Ok
    /\ InKey
    /\ CurrentMember(object_stack).key = <<110, 117, 108, 108>>
    /\ CurrentMember(object_stack).value = <<>>
    /\ writer = <<>>

(***************************************************************************)
(* C12.  Assembly on close: end_object produces '{', then for each member  *)
(* in sorted order its key text, ':' and its value text, with one ','      *)
(* between two members and none before the first or behind the last, then  *)
(* '}'; an object without members gives "{}"; the separators are made at   *)
(* assembly and do not depend on the first flag begin_object_key was given.*)
(***************************************************************************)
\* the accumulator of a member that takes the text routed to it
C12_Active(member) == IF member.key_finished THEN member.value ELSE member.key

\* the text of the members listed in the given order
C12_Text(members, order) ==
    <<123>> \o C7_Joined([i \in 1..Len(members) |->
                            members[order[i]].key \o <<58>> \o members[order[i]].value])
            \o <<125>>

C12_AssembledOnClose ==
    [][(last'.method = "end_object" /\ result' = Ok) =>
          LET members == Head(object_stack)
              rest == Tail(object_stack)
          IN /\ members = <<>> =>
                   IF rest = <<>> THEN Appended(writer, writer', <<123, 125>>)
                   ELSE Appended(C12_Active(CurrentMember(rest)),
                                 C12_Active(CurrentMember(object_stack')), <<123, 125>>)
             /\ \E order \in C1_Orders(Len(members)) :
                   /\ C1_KeysAscend(members, order)
                   /\ IF rest = <<>>
                      THEN Appended(writer, writer', as_bytes(C12_Text(members, order)))
                      ELSE Appended(C12_Active(CurrentMember(rest)),
                                    C12_Active(CurrentMember(object_stack')),
                                    C12_Text(members, order))]_vars

\* the members b (with a value) and a have been assembled to {a:,b:a}
C12_Witness ==
    /\ last.method = "end_object" /\ result = Ok
    /\ object_stack = <<>>
    /\ writer = <<123, 97, 58, 44, 98, 58, 97, 125>>

(***************************************************************************)
(* C13.  When end_object closes a frame while another frame stays on the   *)
(* stack, the assembled text is appended to the value of the current       *)
(* member of the parent frame, never to a key; when the stack becomes      *)
(* empty it is written to the writer.  For every sequence of calls the     *)
(* formatter accepts without error, also one in which begin_object comes   *)
(* while the current member of the parent is in its key phase.             *)
(***************************************************************************)
C13_ObjectTextToValue ==
    [][(last'.method = "end_object" /\ result' = Ok) =>
          LET text == frame_string(Head(object_stack))
              rest == Tail(object_stack)
          IN IF rest = <<>>
             THEN Appended(writer, writer', as_bytes(text))
             ELSE /\ writer' = writer
                  /\ Appended(CurrentMember(rest).value,
                              CurrentMember(object_stack').value, text)
                  /\ CurrentMember(object_stack').key = CurrentMember(rest).key]_vars

(***************************************************************************)
(* C14.  Buffering: while the stack holds a frame no call writes to the    *)
(* writer but the end_object that pops the last frame; the bytes of an     *)
(* outermost object reach the writer in one write at its end_object, and   *)
(* the writer is unchanged by every call between its begin_object and its  *)
(* end_object.                                                             *)
(***************************************************************************)
C14_Buffered ==
    [][(object_stack # <<>> /\ writer' # writer) =>
          /\ last'.method = "end_object"
          /\ Len(object_stack) = 1
          /\ object_stack' = <<>>
          /\ \E order \in C1_Orders(Len(Head(object_stack))) :
                Appended(writer, writer',
                         as_bytes(C12_Text(Head(object_stack), order)))]_vars

\* an outermost object, its key written by a scalar, has reached the
\* writer at its end_object
C14_Witness ==
    /\ last.method = "end_object" /\ result = Ok
    /\ object_stack = <<>>
    /\ writer = <<123, 110, 117, 108, 108, 58, 125>>

(***************************************************************************)
(* C15.  key_finished is a one-way flag: a new member starts with          *)
(* key_finished false and empty key and value; only end_object_key sets    *)
(* the flag and no call resets it; while it is false every routed byte is  *)
(* appended to key and value stays empty; once it is true the key never    *)
(* changes again and every routed byte is appended to value.  A repeated   *)
(* end_object_key on the same member changes nothing.                      *)
(***************************************************************************)
\* the i-th frame of a stack, counted from the frame opened first
C15_Frame(self, i) == self[Len(self) - i + 1]

C15_Min(a, b) == IF a < b THEN a ELSE b

\* sequence before is the front of sequence after
C15_Prefix(before, after) ==
    /\ Len(before) <= Len(after)
    /\ SubSeq(after, 1, Len(before)) = before

\* one member in a step
C15_MemberStep(before, after, current, call) ==
    /\ before.key_finished =>
          /\ after.key_finished
          /\ after.key = before.key
          /\ C15_Prefix(before.value, after.value)
    /\ ~before.key_finished =>
          /\ after.value = <<>> /\ before.value = <<>>
          /\ C15_Prefix(before.key, after.key)
          /\ after.key_finished =>
                /\ call.method = "end_object_key"
                /\ current
                /\ after.key = before.key

C15_OneWayFlag ==
    [][/\ \A i \in 1..C15_Min(Len(object_stack), Len(object_stack')) :
             LET before == C15_Frame(object_stack, i)
                 after == C15_Frame(object_stack', i)
             IN /\ \A m \in 1..C15_Min(Len(before), Len(after)) :
                      C15_MemberStep(before[m], after[m],
                                     i = Len(object_stack) /\ m = Len(before), last')
                /\ \A m \in (Len(before) + 1)..Len(after) :
                      after[m] = [key |-> <<>>, value |-> <<>>, key_finished |-> FALSE]
       /\ (last'.method = "end_object_key" /\ InValue) =>
             /\ result' = Ok
             /\ object_stack' = object_stack
             /\ writer' = writer]_vars

\* a scalar written behind end_object_key has gone to the value of the
\* member, whose flag is still set
C15_Witness ==
    /\ last = TheCall("write_bool", TRUE) /\ result = Ok
    /\ InValue
    /\ CurrentMember(object_stack).key = <<>>
    /\ CurrentMember(object_stack).value = <<116, 114, 117, 101>>

(***************************************************************************)
(* C16.  In every reachable state the member list of every frame on the    *)
(* stack is as long as the number of begin_object_key calls made since     *)
(* the frame was opened, while it was the topmost frame: begin_object_key  *)
(* appends one new empty member at the end of the list of the topmost      *)
(* frame, and no other call adds or removes a member.                      *)
(***************************************************************************)
\* A frame is opened without members, so the count is kept when every step
\* changes the lists as follows.
C16_MembersCounted ==
    [][/\ \A i \in 1..C15_Min(Len(object_stack), Len(object_stack')) :
             LET before == C15_Frame(object_stack, i)
                 after == C15_Frame(object_stack', i)
             IN IF last'.method = "begin_object_key" /\ i = Len(object_stack)
                THEN /\ Len(after) = Len(before) + 1
                     /\ SubSeq(after, 1, Len(before)) = before
                     /\ after[Len(after)] =
                           [key |-> <<>>, value |-> <<>>, key_finished |-> FALSE]
                ELSE Len(after) = Len(before)
       /\ \A i \in (Len(object_stack) + 1)..Len(object_stack') :
             /\ last'.method = "begin_object"
             /\ C15_Frame(object_stack', i) = <<>>
       /\ (last'.method = "begin_object_key" /\ object_stack # <<>>) => result' = Ok]_vars

\* a second member has been appended behind a member that holds a key
C16_Witness ==
    /\ last.method = "begin_object_key" /\ result = Ok
    /\ Len(object_stack) = 1 /\ Len(Head(object_stack)) = 2
    /\ Head(object_stack)[1].key = <<110, 117, 108, 108>>
    /\ Head(object_stack)[2] = [key |-> <<>>, value |-> <<>>, key_finished |-> FALSE]

(***************************************************************************)
(* C17.  The depth of the stack is the nesting depth, the number of        *)
(* begin_object calls whose matching end_object has not arrived:           *)
(* begin_object makes it one more, a successful end_object one less, and   *)
(* no other call changes it; frames are removed last in, first out.        *)
(***************************************************************************)
\* C17 as it stands
C17_DepthAsClaimed ==
    [][Len(object_stack') =
          IF last'.method = "begin_object" THEN Len(object_stack) + 1
          ELSE IF last'.method = "end_object" /\ result' = Ok
               THEN Len(object_stack) - 1
          ELSE Len(object_stack)]_vars

\* the frames of after are those of before: as many, and the same below
\* the topmost, whose members a call may change
C17_SameFrames(before, after) ==
    /\ Len(after) = Len(before)
    /\ after # <<>> => Tail(after) = Tail(before)

\* C17 with every end_object that meets a frame counted, also the one that
\* returns an error because the frame below has no member: the depth is
\* the number of begin_object calls whose end_object has not arrived
C17_DepthIsNesting ==
    [][/\ last'.method = "begin_object" =>
             /\ result' = Ok
             /\ Len(object_stack') = Len(object_stack) + 1
             /\ Head(object_stack') = <<>>
             /\ Tail(object_stack') = object_stack
       /\ (last'.method = "end_object" /\ object_stack # <<>>) =>
             /\ Len(object_stack') = Len(object_stack) - 1
             /\ C17_SameFrames(Tail(object_stack), object_stack')
       /\ (last'.method = "end_object" /\ object_stack = <<>>) =>
             /\ result' # Ok
             /\ object_stack' = <<>>
       /\ last'.method \notin {"begin_object", "end_object"} =>
             C17_SameFrames(object_stack, object_stack')]_vars

\* an end_object has returned an error and yet removed the topmost frame
C17_Witness ==
    /\ last.method = "end_object" /\ result = MemberNotActive
    /\ Len(object_stack) = 1
    /\ budget = MaxCalls - 3

(***************************************************************************)
(* C18.  Each frame is sorted and assembled exactly once, at its           *)
(* end_object, over the complete key texts of its members; after that      *)
(* end_object the frame is gone from the stack, no later call appends to   *)
(* its members, and its text is emitted exactly once: once in the member   *)
(* buffer of the parent or once in the writer, never twice and, on         *)
(* success, never dropped.                                                 *)
(***************************************************************************)
\* the stack rest after the current member of its topmost frame has taken
\* text once
C18_Received(rest, text) ==
    LET frame == Head(rest)
        member == frame[Len(frame)]
        taken == IF member.key_finished
                 THEN [member EXCEPT !.value = member.value \o text]
                 ELSE [member EXCEPT !.key = member.key \o text]
    IN <<[frame EXCEPT ![Len(frame)] = taken]>> \o Tail(rest)

C18_AssembledOnce ==
    [][/\ (last'.method = "end_object" /\ result' = Ok) =>
             LET members == Head(object_stack)
                 rest == Tail(object_stack)
             IN \E order \in C1_Orders(Len(members)) :
                   /\ C1_KeysAscend(members, order)
                   /\ IF rest = <<>>
                      THEN /\ object_stack' = <<>>
                           /\ Appended(writer, writer',
                                       as_bytes(C12_Text(members, order)))
                      ELSE /\ writer' = writer
                           /\ object_stack' =
                                 C18_Received(rest, C12_Text(members, order))
       /\ last'.method # "end_object" =>
             \* no frame is removed, and none is sorted before its end_object:
             \* its members stay where they are and only gain text
             /\ Len(object_stack') >= Len(object_stack)
             /\ \A i \in 1..Len(object_stack) :
                   LET before == C15_Frame(object_stack, i)
                       after == C15_Frame(object_stack', i)
                   IN /\ Len(after) >= Len(before)
                      /\ \A m \in 1..Len(before) :
                            /\ C15_Prefix(before[m].key, after[m].key)
                            /\ C15_Prefix(before[m].value, after[m].value)]_vars

\* the object {a:} has been assembled into the value of a member of its
\* parent, once, and its frame is gone
C18_Witness ==
    /\ last.method = "end_object" /\ result = Ok
    /\ Len(object_stack) = 1 /\ Len(Head(object_stack)) = 1
    /\ Head(object_stack)[1] =
          [key |-> <<>>, value |-> <<123, 97, 58, 125>>, key_finished |-> TRUE]

(***************************************************************************)
(* C19.  Every integer typed write (signed and unsigned, 8 to 128 bits)    *)
(* renders the value as decimal text that the number grammar of            *)
(* write_number_str accepts: no leading zero, no '+', a '-' only for a     *)
(* negative value, "0" for zero, never "-0"; also for the least and the    *)
(* greatest value of each type.  The text is routed like any other write.  *)
(***************************************************************************)
\* The number of 16-bit limbs that hold the widest integer and a sign.
C19_Limbs == (IntegerSize("write_i128") \div 2) + 1

\* the value as limbs, most significant first, its sign carried to the front
C19_AsLimbs(value) ==
    LET negative == value.signed /\ value.bytes[1] >= 128
        size == Len(value.bytes)
        byte(i) == IF i > 2 * C19_Limbs - size
                   THEN value.bytes[i - (2 * C19_Limbs - size)]
                   ELSE IF negative THEN 255 ELSE 0
    IN [i \in 1..C19_Limbs |-> byte(2 * i - 1) * 256 + byte(2 * i)]

\* limbs * factor + plus, for a factor and a plus of at most 10000
RECURSIVE C19_TimesPlus(_, _, _)
C19_TimesPlus(limbs, factor, plus) ==
    IF limbs = <<>> THEN <<>>
    ELSE LET low == limbs[Len(limbs)] * factor + plus
         IN Append(C19_TimesPlus(SubSeq(limbs, 1, Len(limbs) - 1), factor,
                                 low \div 65536),
                   low % 65536)

\* the number that at most four decimal digits stand for
C19_Chunk(digits) ==
    LET n == Len(digits)
        digit(i) == IF i < n THEN digits[n - i] - 48 ELSE 0
    IN digit(0) + 10 * digit(1) + 100 * digit(2) + 1000 * digit(3)

\* the number a text of decimal digits stands for, four digits a step
RECURSIVE C19_Number(_)
C19_Number(digits) ==
    IF digits = <<>> THEN [i \in 1..C19_Limbs |-> 0]
    ELSE LET n == IF Len(digits) < 4 THEN Len(digits) ELSE 4
             front == SubSeq(digits, 1, Len(digits) - n)
             back == SubSeq(digits, Len(digits) - n + 1, Len(digits))
             factor == CASE n = 1 -> 10 [] n = 2 -> 100 [] n = 3 -> 1000
                         [] OTHER -> 10000
         IN C19_TimesPlus(C19_Number(front), factor, C19_Chunk(back))

\* a + b + carry, cut to the limbs of a
RECURSIVE C19_Sum(_, _, _)
C19_Sum(a, b, carry) ==
    IF a = <<>> THEN <<>>
    ELSE LET low == a[Len(a)] + b[Len(b)] + carry
         IN Append(C19_Sum(SubSeq(a, 1, Len(a) - 1), SubSeq(b, 1, Len(b) - 1),
                           low \div 65536),
                   low % 65536)

\* text is the decimal text of the value
C19_Renders(text, value) ==
    LET negative == value.signed /\ value.bytes[1] >= 128
        digits == IF text # <<>> /\ text[1] = 45 THEN Tail(text) ELSE text
        zero == [i \in 1..C19_Limbs |-> 0]
    IN /\ C3_Grammar(text)
       /\ (text[1] = 45) <=> negative
       /\ IF negative
          THEN C19_Sum(C19_Number(digits), C19_AsLimbs(value), 0) = zero
          ELSE C19_Number(digits) = C19_AsLimbs(value)
       /\ (\A i \in 1..Len(value.bytes) : value.bytes[i] = 0) => text = <<48>>

\* Under SpecIntegers the writer and the buffers are empty when the integer
\* is written, so what the destination holds behind the call is its text;
\* the call changes neither the stack depth nor a flag, so the state it met
\* is the state it leaves.
C19_IntegersRendered ==
    last.method \in {"write_i8", "write_i16", "write_i32", "write_i64",
                     "write_i128", "write_u8", "write_u16", "write_u32",
                     "write_u64", "write_u128"} =>
        /\ NoMember => result \in ProtocolViolation /\ writer = <<>>
        /\ NoFrame => result = Ok /\ C19_Renders(writer, last.arg)
        /\ InKey =>
              /\ result = Ok /\ writer = <<>>
              /\ Len(object_stack) = 1 /\ Len(Head(object_stack)) = 1
              /\ C19_Renders(CurrentMember(object_stack).key, last.arg)
              /\ CurrentMember(object_stack).value = <<>>
        /\ InValue =>
              /\ result = Ok /\ writer = <<>>
              /\ Len(object_stack) = 1 /\ Len(Head(object_stack)) = 1
              /\ C19_Renders(CurrentMember(object_stack).value, last.arg)
              /\ CurrentMember(object_stack).key = <<>>

\* i128::MIN has been written into the value of a member
C19_Witness ==
    /\ last.method = "write_i128" /\ result = Ok
    /\ last.arg.bytes = <<128, 0, 0, 0, 0, 0, 0, 0, 0, 0, 0, 0, 0, 0, 0, 0>>
    /\ InValue
    /\ CurrentMember(object_stack).value =
          <<45, 49, 55, 48, 49, 52, 49, 49, 56, 51, 52, 54, 48, 52, 54, 57, 50, 51, 49, 55, 51, 49, 54, 56, 55, 51, 48, 51, 55, 49, 53, 56, 56, 52, 49, 48, 53, 55, 50, 56>>

(***************************************************************************)
(* C20.  A call that returns an error (a float, a number text outside the  *)
(* grammar, a protocol violation, the end_object whose parent frame has no *)
(* member among them) leaves the formatter as it was before the call: the  *)
(* same frames with the same keys, values and flags, and no byte written.  *)
(***************************************************************************)
C20_StateUnchangedOnError ==
    [][result' # Ok => object_stack' = object_stack /\ writer' = writer]_vars

\* C20 but for the end_object that finds the frame below the popped one
\* without a member: pop_object has taken the frame off the stack before it
\* returns the error, and the frame and its members are gone; every other
\* call that returns an error changes neither the stack nor the writer
C20_OnlyFailedCloseDiscards ==
    [][result' # Ok =>
         /\ writer' = writer
         /\ IF /\ last'.method = "end_object"
               /\ Len(object_stack) >= 2
               /\ object_stack[2] = <<>>
            THEN /\ result' = MemberNotActive
                 /\ object_stack' = Tail(object_stack)
            ELSE object_stack' = object_stack]_vars

\* a float has been refused inside a key, after bytes had reached the writer
C20_Witness ==
    /\ result = FloatForbidden
    /\ last.method = "write_f32"
    /\ InKey
    /\ writer # <<>>

(***************************************************************************)
(* C21.  Members are never merged or dropped: the text end_object          *)
(* assembles has one key:value entry for each member of the frame, n       *)
(* entries for n begin_object_key calls, also when members have the same   *)
(* key text; members with the same key text are listed in the order in     *)
(* which their begin_object_key calls arrived.                             *)
(***************************************************************************)
\* order lists every member once, keys ascending, and members of equal key
\* in the order they were pushed
C21_StableOrder(members, order) ==
    \A i, j \in 1..Len(members) :
        i < j =>
            /\ C1_BytesLeq(as_bytes(members[order[i]].key),
                           as_bytes(members[order[j]].key))
            /\ members[order[i]].key = members[order[j]].key => order[i] < order[j]

C21_NoMemberLost ==
    [][(last'.method = "end_object" /\ result' = Ok) =>
          LET members == Head(object_stack)
              rest == Tail(object_stack)
          IN \E order \in C1_Orders(Len(members)) :
                /\ C21_StableOrder(members, order)
                /\ IF rest = <<>>
                   THEN Appended(writer, writer', as_bytes(C12_Text(members, order)))
                   ELSE Appended(C12_Active(CurrentMember(rest)),
                                 C12_Active(CurrentMember(object_stack')),
                                 C12_Text(members, order))]_vars

\* two members of key a, the first with the value a and the second with the
\* value b, have been assembled to {a:a,a:b}
C21_Witness ==
    /\ last.method = "end_object" /\ result = Ok
    /\ object_stack = <<>>
    /\ writer = <<123, 97, 58, 97, 44, 97, 58, 98, 125>>

(***************************************************************************)
(* C22.  Completion and conservation: in a well-nested sequence of calls   *)
(* (each begin_object matched by an end_object, each member given a key,   *)
(* an end_object_key and one value) every call returns Ok, the stack is    *)
(* empty after the last call, and every byte that was appended to a key or *)
(* a value is once in the writer then; no byte stays behind in a buffer.   *)
(***************************************************************************)
\* the bytes the buffers of some members hold
RECURSIVE C22_MembersHeld(_)
C22_MembersHeld(members) ==
    IF members = <<>> THEN <<>>
    ELSE as_bytes(Head(members).key) \o as_bytes(Head(members).value)
           \o C22_MembersHeld(Tail(members))

\* the bytes the buffers of the frames of a stack hold
RECURSIVE C22_Held(_)
C22_Held(self) ==
    IF self = <<>> THEN <<>>
    ELSE C22_MembersHeld(Head(self)) \o C22_Held(Tail(self))

\* how often byte b occurs in a sequence
C22_Count(bytes, b) == Cardinality({i \in 1..Len(bytes) : bytes[i] = b})

\* every byte of sequence a occurs in sequence b at least as often
C22_Kept(a, b) ==
    \A x \in {a[i] : i \in 1..Len(a)} : C22_Count(a, x) <= C22_Count(b, x)

\* the braces, colons and commas of an object of n members
C22_Punctuation(n) ==
    <<123, 125>> \o [i \in 1..n |-> 58] \o [i \in 1..(n - 1) |-> 44]

\* Every call returns Ok and the last leaves no frame.  No call takes a byte
\* out of the writer and the buffers together; end_object moves the bytes
\* of the frame it pops, adds the punctuation and neither drops nor doubles
\* a byte.  So every byte that reached a buffer is once in the writer when
\* the stack is empty.
C22_CompleteAndConserving ==
    [][\E before \in {writer \o C22_Held(object_stack)},
          after \in {writer' \o C22_Held(object_stack')} :
          /\ result' = Ok
          /\ script' = <<>> => object_stack' = <<>>
          /\ object_stack' = <<>> => after = writer'
          /\ C22_Kept(before, after)
          /\ (last'.method = "end_object" /\ object_stack # <<>>) =>
                LET all == before \o C22_Punctuation(Len(Head(object_stack)))
                IN /\ Len(after) = Len(all)
                   /\ C22_Kept(all, after)
                   /\ Len(object_stack') = Len(object_stack) - 1]_vars

\* an object of two members, the first of them an object of two members,
\* has been serialised to its end
C22_Witness ==
    /\ script = <<>> /\ result = Ok
    /\ last.method = "end_object"
    /\ object_stack = <<>> /\ writer # <<>>
    /\ doc.t = "object" /\ Len(doc.members) = 2
    /\ doc.members[1].v.t = "object" /\ Len(doc.members[1].v.members) = 2

====
